---------------------------- MODULE Spec2Model ----------------------------
(***************************************************************************)
(* Port-lifecycle state machine of DynamicNodeDataModel                    *)
(* (qtpynodeeditor/dynamic_node_data_model.py).                            *)
(*                                                                         *)
(* One node instance: its static/dynamic input-port ranges, the spare      *)
(* index, the connected and disconnected sets, the active-input counter,   *)
(* the derived port display, the timers of rejected connections, and a     *)
(* saved record for save()/restore().                                      *)
(***************************************************************************)
EXTENDS Integers, Sequences, FiniteSets, TLC

(* ----------------------------- bounds ---------------------------------- *)

\* num_ports['input'] of the node classes explored
MaxInputs == 3

\* most QTimer.singleShot removals outstanding at one time
MaxPending == 1

\* most restore() calls followed in one run
MaxRestores == 1

(* --------------------------- state ------------------------------------- *)

VARIABLES
    num_inputs,              \* num_ports['input']
    static_input_ports,      \* range(start, stop)
    dynamic_input_ports,     \* range(start, stop)
    active_input_count,      \* _active_input_count
    spare_input_index,       \* _spare_input_index
    connected_inputs,        \* _connected_inputs
    disconnected_inputs,     \* _disconnected_inputs
    port_visible,            \* port_visible['input']
    port_caption,            \* port_caption['input']
    port_caption_visible,    \* port_caption_visible['input']
    pending,                 \* ports of the connections handed to QTimer.singleShot
    signals,                 \* signals emitted by the last handler
    last,                    \* the last operation and the state it started from
    saved,                   \* the record returned by the last save()
    snap,                    \* the node as it was when save() was called
    restores,                \* restore() calls so far
    last_activated,          \* the port most recently taken from spare to connected
    non_tail_disconnect,     \* a disconnect of a connected port failed the line-244 test
    result                   \* the value returned by the last query

node == <<active_input_count, spare_input_index, connected_inputs,
          disconnected_inputs>>
display == <<port_visible, port_caption, port_caption_visible>>
config == <<num_inputs, static_input_ports, dynamic_input_ports>>
vars == <<num_inputs, static_input_ports, dynamic_input_ports,
          active_input_count, spare_input_index, connected_inputs,
          disconnected_inputs, port_visible, port_caption,
          port_caption_visible, pending, signals, last, saved, snap, restores,
          last_activated, non_tail_disconnect, result>>

(* ------------------------ python ranges -------------------------------- *)

\* range(start, stop)
Range(start, stop) == [start |-> start, stop |-> stop]

\* i in range
InRange(i, r) == r.start <= i /\ i < r.stop

\* bool(range): a range is true when it is not empty
Truthy(r) == r.start < r.stop

\* the indices a range iterates over
RangeSet(r) == {i \in r.start .. (r.stop - 1) : TRUE}

Slots == 0 .. (num_inputs - 1)
StaticSet == RangeSet(static_input_ports)
DynamicSet == RangeSet(dynamic_input_ports)

(* ------------------------ classification ------------------------------- *)

is_static_port(i) == Truthy(static_input_ports) /\ InRange(i, static_input_ports)

\* every port that is not static taken for a dynamic one
is_not_static_port(i) == ~is_static_port(i)

is_dynamic_port(i) == Truthy(dynamic_input_ports) /\ InRange(i, dynamic_input_ports)

(* ------------------------ captions -------------------------------------- *)

ConnectHere == "Connect here"

\* f"Input {i + 1}"
GenericCaption(i) ==
    CASE i = 0 -> "Input 1"
      [] i = 1 -> "Input 2"
      [] i = 2 -> "Input 3"
      [] i = 3 -> "Input 4"
      [] i = 4 -> "Input 5"
      [] i = 5 -> "Input 6"
      [] OTHER -> "Input n"

\* the node classes explored declare a data type for the even input ports
HasDataType(i) == i % 2 = 0

DataTypeName(i) == "decimal"

\* _original_port_caption[i], snapshotted by __init__
original_port_caption(i) ==
    IF HasDataType(i) THEN DataTypeName(i) ELSE GenericCaption(i)

(* ------------------------ sorted() -------------------------------------- *)

SetMin(S) == CHOOSE x \in S : \A y \in S : x <= y

RECURSIVE Sorted(_)
Sorted(S) == IF S = {} THEN <<>>
             ELSE <<SetMin(S)>> \o Sorted(S \ {SetMin(S)})

Elems(s) == {s[p] : p \in DOMAIN s}

(* ------------------------ get_visual_port_ordering ---------------------- *)

\* the ordering with the spare put after the disconnected ports
ordering_spare_last(conn, disc, spare) ==
    LET statics == IF Truthy(static_input_ports)
                   THEN Sorted(RangeSet(static_input_ports)) ELSE <<>>
        dynamic_connected == {i \in conn : InRange(i, dynamic_input_ports)}
        dynamic_disconnected == {i \in disc : InRange(i, dynamic_input_ports)}
        sparePart == IF spare >= 0 /\ InRange(spare, dynamic_input_ports)
                     THEN <<spare>> ELSE <<>>
    IN  IF Truthy(dynamic_input_ports)
        THEN statics \o Sorted(dynamic_connected)
                     \o Sorted(dynamic_disconnected) \o sparePart
        ELSE statics

\* the ordering without the disconnected ports
ordering_without_disconnected(conn, disc, spare) ==
    LET statics == IF Truthy(static_input_ports)
                   THEN Sorted(RangeSet(static_input_ports)) ELSE <<>>
        dynamic_connected == {i \in conn : InRange(i, dynamic_input_ports)}
        sparePart == IF spare >= 0 /\ InRange(spare, dynamic_input_ports)
                     THEN <<spare>> ELSE <<>>
    IN  IF Truthy(dynamic_input_ports)
        THEN statics \o Sorted(dynamic_connected) \o sparePart
        ELSE statics

get_visual_port_ordering(conn, disc, spare) ==
    LET statics == IF Truthy(static_input_ports)
                   THEN Sorted(RangeSet(static_input_ports)) ELSE <<>>
        dynamic_connected == {i \in conn : InRange(i, dynamic_input_ports)}
        dynamic_disconnected == {i \in disc : InRange(i, dynamic_input_ports)}
        sparePart == IF spare >= 0 /\ InRange(spare, dynamic_input_ports)
                     THEN <<spare>> ELSE <<>>
    IN  IF Truthy(dynamic_input_ports)
        THEN statics \o Sorted(dynamic_connected) \o sparePart
                     \o Sorted(dynamic_disconnected)
        ELSE statics

(* ------------------------ _update_port_display -------------------------- *)

\* every port of the visual order treated as dynamic
shown_without_dynamic_test(i, order) == i \in order

\* every dynamic port shown, in the visual order or not
shown_if_dynamic(i, order) == is_dynamic_port(i)

\* lines 142-143: the port is in the visual order and passes is_dynamic_port
dynamic_shown(i, order) == i \in order /\ is_dynamic_port(i)

\* the original caption for every shown dynamic port, the spare included
caption_always_original(i, spare) == original_port_caption(i)

\* lines 144-152: the caption a shown dynamic port gets
dynamic_caption(i, spare) ==
    IF i = spare /\ spare >= 0 THEN ConnectHere ELSE original_port_caption(i)

\* the three port maps after _update_port_display() in the given state: all
\* hidden, then the static ports, then the dynamic ports of the visual order
update_port_display(conn, disc, spare) ==
    LET order == Elems(get_visual_port_ordering(conn, disc, spare))
    IN  [visible |-> [i \in Slots |->
                        IF dynamic_shown(i, order) THEN TRUE
                        ELSE is_static_port(i)],
         caption |-> [i \in Slots |->
                        IF dynamic_shown(i, order) THEN dynamic_caption(i, spare)
                        ELSE IF is_static_port(i) THEN original_port_caption(i)
                        ELSE ""],
         caption_visible |-> [i \in Slots |->
                        IF dynamic_shown(i, order) THEN TRUE
                        ELSE is_static_port(i)]]

SetDisplay(conn, disc, spare) ==
    LET d == update_port_display(conn, disc, spare)
    IN  /\ port_visible' = d.visible
        /\ port_caption' = d.caption
        /\ port_caption_visible' = d.caption_visible

(* ------------------------ can_connect_to_port --------------------------- *)

\* no visibility check
can_connect_always(i) == TRUE

\* port_visible['input'].get(port_index, True)
can_connect_to_port(i) ==
    IF i \in DOMAIN port_visible THEN port_visible[i] ELSE TRUE

(* ------------------------ spare scan ------------------------------------ *)

\* the scan run from the top of the range down
RECURSIVE ScanSpareDown(_, _, _, _)
ScanSpareDown(i, stop, conn, disc) ==
    IF i >= stop THEN -1
    ELSE IF (stop - 1) \notin conn /\ (stop - 1) \notin disc THEN stop - 1
    ELSE ScanSpareDown(i, stop - 1, conn, disc)

\* for i in dynamic_input_ports: if i is free: spare = i; break / else: -1
RECURSIVE ScanSpare(_, _, _, _)
ScanSpare(i, stop, conn, disc) ==
    IF i >= stop THEN -1
    ELSE IF i \notin conn /\ i \notin disc THEN i
    ELSE ScanSpare(i + 1, stop, conn, disc)

\* the scan forgetting the disconnected ports
next_spare_ignores_disconnected(conn, disc) ==
    ScanSpare(dynamic_input_ports.start, dynamic_input_ports.stop, conn, {})

\* the scan ending one port early
next_spare_stops_early(conn, disc) ==
    ScanSpare(dynamic_input_ports.start, dynamic_input_ports.stop - 1, conn, disc)

next_spare(conn, disc) ==
    ScanSpare(dynamic_input_ports.start, dynamic_input_ports.stop, conn, disc)

(* ------------------------ history --------------------------------------- *)

NoSignals == <<>>
\* the size signal without the data signal
SizeSignalOnly == <<"embedded_widget_size_updated">>

ChangeSignals == <<"embedded_widget_size_updated", "data_updated">>

NoRecord ==
    [dyn |-> FALSE, keys |-> {}, active_input_count |-> 0,
     spare_input_index |-> 0, connected_inputs |-> <<>>,
     disconnected_inputs |-> <<>>]

NoSnap ==
    [active_input_count |-> 0, spare_input_index |-> 0,
     connected_inputs |-> {}, disconnected_inputs |-> {}, ordering |-> <<>>]

\* the operation being run and the state it starts from
Event(op, port, rec) ==
    [op |-> op, port |-> port, rec |-> rec,
     active_input_count |-> active_input_count,
     spare_input_index |-> spare_input_index,
     connected_inputs |-> connected_inputs,
     disconnected_inputs |-> disconnected_inputs,
     port_visible |-> port_visible,
     pending |-> pending,
     snap |-> snap,
     last_activated |-> last_activated]

(* ------------------------ __init__ -------------------------------------- *)

\* the class attributes static_input_ports / dynamic_input_ports: None or a range
NoneAttr == [given |-> FALSE, range |-> Range(0, 0)]
Given(r) == [given |-> TRUE, range |-> r]

\* the node classes explored: two disjoint ranges inside
\* range(num_ports['input']), either attribute possibly left None
ClassAttrs(n) ==
    {NoneAttr, Given(Range(0, 0))}
        \cup {Given(Range(a, b)) : a \in 0 .. (n - 1), b \in 1 .. n}

NodeClasses ==
    {c \in [n : {MaxInputs},
            static : ClassAttrs(MaxInputs), dynamic : ClassAttrs(MaxInputs)] :
        /\ c.static.range.start < c.static.range.stop
             \/ c.static.range = Range(0, 0)
        /\ c.dynamic.range.start < c.dynamic.range.stop
             \/ c.dynamic.range = Range(0, 0)
        /\ RangeSet(c.static.range) \cap RangeSet(c.dynamic.range) = {}}

\* lines 64-71: both None -> all dynamic; one None -> that one is empty
ResolveStatic(c) == IF c.static.given THEN c.static.range ELSE Range(0, 0)

ResolveDynamic(c) ==
    IF ~c.static.given /\ ~c.dynamic.given THEN Range(0, c.n)
    ELSE IF c.dynamic.given THEN c.dynamic.range ELSE Range(0, 0)

\* the ranges __init__ leaves in the instance
ResolvedClasses ==
    {[n |-> c.n, static |-> ResolveStatic(c), dynamic |-> ResolveDynamic(c)] :
        c \in NodeClasses}

\* the last dynamic port as the first spare
initial_spare_last ==
    IF Truthy(dynamic_input_ports) THEN dynamic_input_ports.stop - 1
    ELSE -1

\* line 75: the first dynamic port, or -1
initial_spare ==
    IF Truthy(dynamic_input_ports) THEN SetMin(RangeSet(dynamic_input_ports))
    ELSE -1

Init ==
    /\ \E c \in ResolvedClasses :
        /\ num_inputs = c.n
        /\ static_input_ports = c.static
        /\ dynamic_input_ports = c.dynamic
    /\ active_input_count = 0
    /\ spare_input_index = initial_spare
    /\ connected_inputs = {}
    /\ disconnected_inputs = {}
    /\ LET d == update_port_display({}, {}, spare_input_index)
       IN  /\ port_visible = d.visible
           /\ port_caption = d.caption
           /\ port_caption_visible = d.caption_visible
    /\ pending = <<>>
    /\ signals = NoSignals
    /\ last = [op |-> "init", port |-> -1, rec |-> NoRecord,
               active_input_count |-> 0, spare_input_index |-> -1,
               connected_inputs |-> {}, disconnected_inputs |-> {},
               port_visible |-> port_visible, pending |-> <<>>,
               snap |-> NoSnap, last_activated |-> -1]
    /\ saved = NoRecord
    /\ snap = NoSnap
    /\ restores = 0
    /\ last_activated = -1
    /\ non_tail_disconnect = FALSE
    /\ result = <<>>

(* ------------------------ input_connection_created ---------------------- *)

input_connection_created(i) ==
    /\ last' = Event("created", i, NoRecord)
    /\ UNCHANGED <<config, saved, snap, restores, non_tail_disconnect, result>>
    /\ IF is_static_port(i) \/ ~is_dynamic_port(i)
       THEN \* lines 175-183: the base handler only
            /\ signals' = NoSignals
            /\ UNCHANGED <<node, display, pending, last_activated>>
       ELSE IF ~can_connect_to_port(i)
       THEN \* lines 186-190: hand the connection to a timer and return
            /\ Len(pending) < MaxPending
            /\ pending' = Append(pending, i)
            /\ signals' = NoSignals
            /\ UNCHANGED <<node, display, last_activated>>
       ELSE IF i \in disconnected_inputs
       THEN \* lines 193-198
            /\ disconnected_inputs' = disconnected_inputs \ {i}
            /\ connected_inputs' = connected_inputs \cup {i}
            /\ SetDisplay(connected_inputs', disconnected_inputs', spare_input_index)
            /\ signals' = ChangeSignals
            /\ UNCHANGED <<active_input_count, spare_input_index, pending,
                         last_activated>>
       ELSE IF i = spare_input_index
       THEN \* lines 201-217
            /\ connected_inputs' = connected_inputs \cup {i}
            /\ active_input_count' = active_input_count + 1
            /\ spare_input_index' = next_spare(connected_inputs', disconnected_inputs)
            /\ SetDisplay(connected_inputs', disconnected_inputs, spare_input_index')
            /\ signals' = ChangeSignals
            /\ last_activated' = i
            /\ UNCHANGED <<disconnected_inputs, pending>>
       ELSE \* already connected: the base handler only
            /\ signals' = NoSignals
            /\ UNCHANGED <<node, display, pending, last_activated>>

(* ------------------------ input_connection_deleted ---------------------- *)

\* every disconnect treated as the tail
was_last_active_always(i) == TRUE

\* line 244: "if this was the last active port"
was_last_active(i) == i = active_input_count - 1

\* the handler's effect on the node, its display and the signals
connection_deleted(i) ==
    IF is_static_port(i) \/ ~is_dynamic_port(i)
    THEN \* lines 227-235
         /\ signals' = NoSignals
         /\ UNCHANGED <<node, display, non_tail_disconnect>>
    ELSE IF i \in connected_inputs
    THEN \* lines 238-258
         /\ connected_inputs' = connected_inputs \ {i}
         /\ disconnected_inputs' = disconnected_inputs \cup {i}
         /\ IF was_last_active(i)
            THEN /\ active_input_count' = active_input_count - 1
                 /\ spare_input_index' =
                        next_spare(connected_inputs', disconnected_inputs')
                 /\ UNCHANGED non_tail_disconnect
            ELSE /\ non_tail_disconnect' = TRUE
                 /\ UNCHANGED <<active_input_count, spare_input_index>>
         /\ SetDisplay(connected_inputs', disconnected_inputs', spare_input_index')
         /\ signals' = ChangeSignals
    ELSE IF i = spare_input_index
    THEN \* lines 261-278
         /\ disconnected_inputs' = disconnected_inputs \cup {i}
         /\ spare_input_index' =
                next_spare(connected_inputs, disconnected_inputs')
         /\ SetDisplay(connected_inputs, disconnected_inputs', spare_input_index')
         /\ signals' = ChangeSignals
         /\ UNCHANGED <<connected_inputs, active_input_count,
                        non_tail_disconnect>>
    ELSE /\ signals' = NoSignals
         /\ UNCHANGED <<node, display, non_tail_disconnect>>

input_connection_deleted(i) ==
    /\ last' = Event("deleted", i, NoRecord)
    /\ connection_deleted(i)
    /\ UNCHANGED <<config, pending, saved, snap, restores, last_activated,
                   result>>

(* ------------------------ _remove_invalid_connection -------------------- *)

\* the timer of the oldest rejected connection fires.  Either a scene is
\* found and deletes the connection, which delivers input_connection_deleted
\* for its port, or none is found and the failure is swallowed.
remove_invalid_connection ==
    /\ pending # <<>>
    /\ pending' = Tail(pending)
    /\ UNCHANGED <<config, saved, snap, restores, last_activated, result>>
    /\ \/ /\ last' = Event("removal", Head(pending), NoRecord)
          /\ connection_deleted(Head(pending))
       \/ /\ last' = Event("removal_failed", Head(pending), NoRecord)
          /\ signals' = NoSignals
          /\ UNCHANGED <<node, display, non_tail_disconnect>>

(* ------------------------ save / restore -------------------------------- *)

\* list(a_set): the elements once each, in an order the set decides
ListOf(S) ==
    {q \in [1 .. Cardinality(S) -> S] : \A x \in S : \E p \in DOMAIN q : q[p] = x}

\* set(a_list)
SetOf(q) == {q[p] : p \in DOMAIN q}

StateKeys == {"active_input_count", "spare_input_index",
              "connected_inputs", "disconnected_inputs"}

\* the record without the disconnected inputs
save_record_without_disconnected(c, d) ==
    [dyn |-> TRUE, keys |-> StateKeys,
     active_input_count |-> active_input_count,
     spare_input_index |-> spare_input_index,
     connected_inputs |-> c,
     disconnected_inputs |-> <<>>]

\* the 'dynamic_node_state' sub-record save() adds to the base record
save_record(c, d) ==
    [dyn |-> TRUE, keys |-> StateKeys,
     active_input_count |-> active_input_count,
     spare_input_index |-> spare_input_index,
     connected_inputs |-> c,
     disconnected_inputs |-> d]

save ==
    /\ ~saved.dyn
    /\ \E c \in ListOf(connected_inputs), d \in ListOf(disconnected_inputs) :
            saved' = save_record(c, d)
    /\ snap' = [active_input_count |-> active_input_count,
                spare_input_index |-> spare_input_index,
                connected_inputs |-> connected_inputs,
                disconnected_inputs |-> disconnected_inputs,
                ordering |-> get_visual_port_ordering(connected_inputs,
                                 disconnected_inputs, spare_input_index)]
    /\ last' = Event("save", -1, NoRecord)
    /\ signals' = NoSignals
    /\ UNCHANGED <<config, node, display, pending, restores, last_activated,
                   non_tail_disconnect, result>>

\* the lookup without the default
get_without_default(rec, key, value, default) == value

\* dynamic_state.get(key, default)
Get(rec, key, value, default) == IF key \in rec.keys THEN value ELSE default

restore(rec) ==
    /\ last' = Event("restore", -1, rec)
    /\ restores < MaxRestores
    /\ restores' = restores + 1
    /\ saved' = NoRecord
    /\ snap' = NoSnap
    /\ UNCHANGED <<config, pending, last_activated, non_tail_disconnect, result>>
    /\ IF rec.dyn
       THEN \* lines 545-556
            /\ active_input_count' =
                   Get(rec, "active_input_count", rec.active_input_count, 0)
            /\ spare_input_index' =
                   Get(rec, "spare_input_index", rec.spare_input_index, 0)
            /\ connected_inputs' =
                   SetOf(Get(rec, "connected_inputs", rec.connected_inputs, <<>>))
            /\ disconnected_inputs' =
                   SetOf(Get(rec, "disconnected_inputs", rec.disconnected_inputs, <<>>))
            /\ SetDisplay(connected_inputs', disconnected_inputs', spare_input_index')
            /\ signals' = ChangeSignals
       ELSE /\ signals' = NoSignals
            /\ UNCHANGED <<node, display>>

\* the records handed to restore(): the saved record, the saved record with
\* some keys of its sub-record missing, or a record without the sub-record
RestoreInputs ==
    {NoRecord} \cup
    (IF saved.dyn THEN {[saved EXCEPT !.keys = K] : K \in SUBSET StateKeys}
     ELSE {})

\* a new node of the same class replaces the node (lines 73-119)
construct ==
    /\ active_input_count' = 0
    /\ spare_input_index' = initial_spare
    /\ connected_inputs' = {}
    /\ disconnected_inputs' = {}
    /\ SetDisplay({}, {}, initial_spare)
    /\ pending' = <<>>
    /\ signals' = NoSignals
    /\ last_activated' = -1
    /\ non_tail_disconnect' = FALSE
    /\ last' = Event("construct", -1, NoRecord)
    /\ UNCHANGED <<config, saved, snap, restores, result>>

(* ------------------------ specification --------------------------------- *)

Next ==
    \/ \E i \in Slots : input_connection_created(i)
    \/ \E i \in Slots : input_connection_deleted(i)
    \/ remove_invalid_connection

Spec == Init /\ [][Next]_vars

\* the node with persistence.  One record is followed at a time: save()
\* writes it, a new node of the class may be constructed, restore() reads it;
\* connection events are taken before the save and after the restore.
NextPersist ==
    \/ ~saved.dyn /\ Next
    \/ save
    \/ construct
    \/ \E rec \in RestoreInputs : restore(rec)

SpecPersist == Init /\ [][NextPersist]_vars

\* one scene file: the node takes connection events, save() writes the
\* record, the loading scene constructs a new node of the class and restore()
\* reads the record back
NextRoundTrip ==
    \/ ~saved.dyn /\ restores = 0 /\ Next
    \/ restores = 0 /\ save
    \/ saved.dyn /\ construct
    \/ saved.dyn /\ restore(saved)

SpecRoundTrip == Init /\ [][NextRoundTrip]_vars

(* ------------------------ the queries as functions of the state --------- *)

\* the records a file can hold: any spare index, any two lists of slots
AnyRecords ==
    {[dyn |-> TRUE, keys |-> StateKeys, active_input_count |-> 0,
      spare_input_index |-> sp, connected_inputs |-> Sorted(C),
      disconnected_inputs |-> Sorted(D)] :
        sp \in -1 .. num_inputs, C \in SUBSET Slots, D \in SUBSET Slots}

\* a call of get_visual_port_ordering(): it returns the ordering and assigns
\* nothing
visual_port_ordering_query ==
    /\ result' = get_visual_port_ordering(connected_inputs, disconnected_inputs,
                                          spare_input_index)
    /\ last' = Event("get_visual_port_ordering", -1, NoRecord)
    /\ UNCHANGED <<config, node, display, pending, signals, saved, snap,
                   restores, last_activated, non_tail_disconnect>>

\* a new node put in any state by restore() (the four fields are taken
\* verbatim from the record), then queried
NextQuery ==
    \/ last.op = "init" /\ \E rec \in AnyRecords : restore(rec)
    \/ visual_port_ordering_query

SpecOrdering == Init /\ [][NextQuery]_vars


(* ------------------------ logical / visual index ------------------------ *)

\* a returned index, and the None returned when there is none
Some(x) == <<x>>
None == <<>>

\* the lookup taking a negative position from the end, as list indexing does
visual_to_logical_from_end(visual_index) ==
    LET visual_order == get_visual_port_ordering(connected_inputs,
                            disconnected_inputs, spare_input_index)
        n == Len(visual_order)
    IN  IF 0 - n <= visual_index /\ visual_index < n
        THEN Some(visual_order[((visual_index + n) % n) + 1])
        ELSE None

\* visual_order.index(logical_index): the first position holding the index,
\* counted from 0; ValueError is turned into None
logical_to_visual_index(logical_index) ==
    LET visual_order == get_visual_port_ordering(connected_inputs,
                            disconnected_inputs, spare_input_index)
        hits == {p \in DOMAIN visual_order : visual_order[p] = logical_index}
    IN  IF hits = {} THEN None ELSE Some(SetMin(hits) - 1)

\* visual_order[visual_index] when 0 <= visual_index < len(visual_order)
visual_to_logical_index(visual_index) ==
    LET visual_order == get_visual_port_ordering(connected_inputs,
                            disconnected_inputs, spare_input_index)
    IN  IF 0 <= visual_index /\ visual_index < Len(visual_order)
        THEN Some(visual_order[visual_index + 1])
        ELSE None

\* len(get_visual_port_ordering())
get_visual_port_count ==
    Len(get_visual_port_ordering(connected_inputs, disconnected_inputs,
                                 spare_input_index))

(* ======================= properties ==================================== *)

Free == DynamicSet \ (connected_inputs \cup disconnected_inputs)

\* the last operation was a connection-created event at a dynamic port
CreatedAtDynamic == last.op = "created" /\ is_dynamic_port(last.port)

\* the last operation was a connection-removed event (delivered by the scene
\* or by the removal of a rejected connection) at a dynamic port that was
\* connected
DeletedConnected ==
    /\ last.op \in {"deleted", "removal"}
    /\ is_dynamic_port(last.port)
    /\ last.port \in last.connected_inputs

\* the state the last operation started from is that of a new node
FromNewNode ==
    /\ last.connected_inputs = {}
    /\ last.disconnected_inputs = {}
    /\ last.active_input_count = 0
    /\ last.spare_input_index = initial_spare

\* C1: under connection events the connected and disconnected sets are
\* disjoint, the spare index is -1 or a dynamic index, and the spare index is
\* in neither set, so a dynamic slot is in exactly one of spare, connected,
\* disconnected, hidden and at most one is the spare.
C1_SlotStatesExclusive ==
    /\ connected_inputs \cap disconnected_inputs = {}
    /\ spare_input_index = -1 \/ spare_input_index \in DynamicSet
    /\ spare_input_index \notin connected_inputs \cup disconnected_inputs

C1_Witness ==
    /\ last.op \in {"created", "deleted"}
    /\ connected_inputs # {}
    /\ disconnected_inputs # {}
    /\ spare_input_index \in DynamicSet

C3_ConnectSpare ==
    (/\ CreatedAtDynamic
     /\ last.port = last.spare_input_index
     /\ last.port_visible[last.port])
    => /\ connected_inputs = last.connected_inputs \cup {last.port}
       /\ active_input_count = last.active_input_count + 1
       /\ IF Free = {} THEN spare_input_index = -1
          ELSE /\ spare_input_index \in Free
               /\ \A j \in Free : spare_input_index <= j

C3_Witness ==
    /\ CreatedAtDynamic
    /\ last.port = last.spare_input_index
    /\ last.port_visible[last.port]
    /\ FromNewNode
    /\ connected_inputs = {last.port}
    /\ active_input_count = 1
    /\ spare_input_index = last.port + 1

\* C4 as stated: with exactly one dynamic slot d, connecting d on a new node
\* and then disconnecting d returns the spare to d, the caption of d to
\* "Connect here" and active_input_count to 0.
C4_SingleSlotRoundTrip ==
    (/\ Cardinality(DynamicSet) = 1
     /\ DeletedConnected
     /\ last.connected_inputs = {last.port}
     /\ last.disconnected_inputs = {}
     /\ last.active_input_count = 1
     /\ last.last_activated = last.port)
    => /\ spare_input_index = last.port
       /\ port_caption[last.port] = ConnectHere
       /\ active_input_count = 0

\* C5: a connection-removed event at a connected dynamic slot i with
\* i # active_input_count - 1 moves i from connected to disconnected and leaves
\* active_input_count and the spare index unchanged.
C5_NonTailDisconnect ==
    (/\ DeletedConnected
     /\ last.port # last.active_input_count - 1)
    => /\ connected_inputs = last.connected_inputs \ {last.port}
       /\ disconnected_inputs = last.disconnected_inputs \cup {last.port}
       /\ active_input_count = last.active_input_count
       /\ spare_input_index = last.spare_input_index

C5_Witness ==
    /\ DeletedConnected
    /\ last.port = 0
    /\ last.connected_inputs = {0, 1}
    /\ disconnected_inputs = {0}
    /\ active_input_count = 2
    /\ spare_input_index = 2

\* C6 as stated: the test "index = active_input_count - 1" holds of a
\* connected dynamic slot being removed exactly when that slot is the one most
\* recently moved from spare to connected, and removing that slot takes
\* exactly 1 from active_input_count.
C6_TailTest ==
    DeletedConnected
    => /\ (last.port = last.last_activated)
            <=> (last.port = last.active_input_count - 1)
       /\ last.port = last.last_activated
            => active_input_count = last.active_input_count - 1

\* C7: a connection-created event at a dynamic slot that is not visible
\* changes neither set, nor the spare index, nor active_input_count, emits no
\* signal, and hands the connection to a removal that runs later instead of
\* removing it in the handler.
C7_HiddenRejected ==
    (CreatedAtDynamic /\ ~last.port_visible[last.port])
    => /\ connected_inputs = last.connected_inputs
       /\ disconnected_inputs = last.disconnected_inputs
       /\ spare_input_index = last.spare_input_index
       /\ active_input_count = last.active_input_count
       /\ signals = NoSignals
       /\ pending = Append(last.pending, last.port)

C7_Witness ==
    /\ CreatedAtDynamic
    /\ ~last.port_visible[last.port]
    /\ last.port \notin connected_inputs \cup disconnected_inputs
    /\ last.port # spare_input_index
    /\ connected_inputs # {}
    /\ pending = <<last.port>>

\* C8: after construction and after every connection-created,
\* connection-removed or restore operation every static slot is visible and
\* carries its construction-time caption.
C8_StaticAlwaysShown ==
    \A i \in StaticSet :
        /\ port_visible[i]
        /\ port_caption_visible[i]
        /\ port_caption[i] = original_port_caption(i)

C8_Witness ==
    /\ last.op = "restore"
    /\ last.rec.dyn
    /\ StaticSet # {}
    /\ spare_input_index \in StaticSet
    /\ last.connected_inputs # {}

\* C9: get_visual_port_ordering returns the static indices ascending, then
\* the connected dynamic indices ascending, then the spare index if it is
\* >= 0 and dynamic, then the disconnected dynamic indices ascending; no index
\* outside the static and dynamic sets appears, and the call changes no state.
C9_VisualOrdering ==
    last.op = "get_visual_port_ordering" =>
        LET C == connected_inputs \cap DynamicSet
            D == disconnected_inputs \cap DynamicSet
            ns == Cardinality(StaticSet)
            nc == Cardinality(C)
            nsp == IF spare_input_index >= 0 /\ spare_input_index \in DynamicSet
                   THEN 1 ELSE 0
            nd == Cardinality(D)
            Seg(lo, n) == {result[p] : p \in (lo + 1) .. (lo + n)}
            Asc(lo, n) == \A p, q \in (lo + 1) .. (lo + n) :
                             p < q => result[p] < result[q]
        IN  /\ Len(result) = ns + nc + nsp + nd
            /\ Seg(0, ns) = StaticSet /\ Asc(0, ns)
            /\ Seg(ns, nc) = C /\ Asc(ns, nc)
            /\ nsp = 1 => result[ns + nc + 1] = spare_input_index
            /\ Seg(ns + nc + nsp, nd) = D /\ Asc(ns + nc + nsp, nd)
            /\ \A p \in DOMAIN result : result[p] \in StaticSet \cup DynamicSet
            /\ connected_inputs = last.connected_inputs
            /\ disconnected_inputs = last.disconnected_inputs
            /\ spare_input_index = last.spare_input_index
            /\ active_input_count = last.active_input_count
            /\ port_visible = last.port_visible

C9_Witness ==
    /\ last.op = "get_visual_port_ordering"
    /\ StaticSet = {0}
    /\ connected_inputs = {2}
    /\ spare_input_index = 1
    /\ disconnected_inputs = {}
    /\ result = <<0, 2, 1>>

\* C10: restore() of the record save() returned, on a new node of the same
\* class, yields the connected set, disconnected set, spare index and
\* active_input_count of the saved node and the same visual ordering.
C10_SaveRestoreRoundTrip ==
    (/\ last.op = "restore"
     /\ last.rec.dyn
     /\ last.rec.keys = StateKeys
     /\ FromNewNode)
    => /\ connected_inputs = last.snap.connected_inputs
       /\ disconnected_inputs = last.snap.disconnected_inputs
       /\ spare_input_index = last.snap.spare_input_index
       /\ active_input_count = last.snap.active_input_count
       /\ get_visual_port_ordering(connected_inputs, disconnected_inputs,
                                   spare_input_index) = last.snap.ordering

C10_Witness ==
    /\ last.op = "restore"
    /\ last.rec.dyn
    /\ last.rec.keys = StateKeys
    /\ FromNewNode
    /\ connected_inputs # {}
    /\ disconnected_inputs # {}
    /\ active_input_count = 2

\* C11 as stated: as long as every connection-removed event at a connected
\* dynamic slot so far hit the slot with index active_input_count - 1 (no
\* non-tail disconnect has occurred), active_input_count equals the size of
\* the connected set.
C11_CountIsConnected ==
    ~non_tail_disconnect => active_input_count = Cardinality(connected_inputs)

\* C12: a connection-created event at a dynamic slot that is in the
\* disconnected set moves it from disconnected to connected and leaves the
\* spare index, active_input_count and every other slot's membership
\* unchanged.
C12_ReconnectDisconnected ==
    (CreatedAtDynamic /\ last.port \in last.disconnected_inputs)
    => /\ connected_inputs = last.connected_inputs \cup {last.port}
       /\ disconnected_inputs = last.disconnected_inputs \ {last.port}
       /\ last.port \notin last.connected_inputs
       /\ spare_input_index = last.spare_input_index
       /\ active_input_count = last.active_input_count

C12_Witness ==
    /\ CreatedAtDynamic
    /\ last.port \in last.disconnected_inputs
    /\ last.port \in connected_inputs
    /\ last.connected_inputs # {}
    /\ disconnected_inputs # {}
    /\ spare_input_index = -1

\* C13: a connection-created or connection-removed event at a slot that is
\* static, or in neither the static nor the dynamic set, leaves the connected
\* set, the disconnected set, the spare index and active_input_count unchanged
\* and emits no change signal.
C13_StaticPassThrough ==
    (/\ last.op \in {"created", "deleted", "removal"}
     /\ \/ last.port \in StaticSet
        \/ last.port \notin StaticSet \cup DynamicSet)
    => /\ connected_inputs = last.connected_inputs
       /\ disconnected_inputs = last.disconnected_inputs
       /\ spare_input_index = last.spare_input_index
       /\ active_input_count = last.active_input_count
       /\ signals = NoSignals

C13_Witness ==
    /\ last.op = "deleted"
    /\ last.port \notin StaticSet \cup DynamicSet
    /\ last.port = spare_input_index
    /\ connected_inputs # {}

\* C14: a connection-created or connection-removed event emits the change
\* signals (embedded_widget_size_updated, then data_updated) and leaves the
\* display recomputed from the new state if and only if it changes the
\* connected set, the disconnected set, the spare index or
\* active_input_count; an event that changes none of them emits no signal
\* and leaves the display as it was.
C14_SignalsIffChanged ==
    last.op \in {"created", "deleted", "removal"} =>
        LET changed == \/ connected_inputs # last.connected_inputs
                       \/ disconnected_inputs # last.disconnected_inputs
                       \/ spare_input_index # last.spare_input_index
                       \/ active_input_count # last.active_input_count
            shown == update_port_display(connected_inputs, disconnected_inputs,
                                         spare_input_index)
        IN  IF changed
            THEN /\ signals = <<"embedded_widget_size_updated", "data_updated">>
                 /\ port_visible = shown.visible
                 /\ port_caption = shown.caption
                 /\ port_caption_visible = shown.caption_visible
            ELSE /\ signals = <<>>
                 /\ port_visible = last.port_visible

C14_Witness ==
    /\ last.op = "deleted"
    /\ is_dynamic_port(last.port)
    /\ last.port \in last.connected_inputs
    /\ last.port # last.active_input_count - 1
    /\ spare_input_index = last.spare_input_index
    /\ active_input_count = last.active_input_count
    /\ signals = <<"embedded_widget_size_updated", "data_updated">>

\* C15: the display is a function of the slot state.  For every input index
\* i in [0, max_inputs): i is visible iff it is static, or dynamic and the
\* spare, connected or disconnected; the spare's caption is "Connect here";
\* a connected or disconnected dynamic slot carries its original caption;
\* every other dynamic or unassigned slot is hidden with an empty caption.
C15_DisplayFollowsState ==
    \A i \in 0 .. (num_inputs - 1) :
        LET kept == i \in connected_inputs \cup disconnected_inputs
            spare == i = spare_input_index
            shown == i \in DynamicSet /\ (spare \/ kept)
        IN  /\ port_visible[i] <=> (i \in StaticSet \/ shown)
            /\ (i \in DynamicSet /\ spare) => port_caption[i] = "Connect here"
            /\ (i \in DynamicSet /\ kept) =>
                    port_caption[i] = original_port_caption(i)
            /\ (i \notin StaticSet /\ ~shown) =>
                    /\ ~port_visible[i]
                    /\ ~port_caption_visible[i]
                    /\ port_caption[i] = ""

C15_Witness ==
    /\ last.op \in {"created", "deleted", "removal"}
    /\ disconnected_inputs # {}
    /\ spare_input_index \in DynamicSet
    /\ port_caption[spare_input_index] = "Connect here"
    /\ \E i \in DynamicSet : ~port_visible[i] /\ port_caption[i] = ""
    /\ \E i \in disconnected_inputs : port_caption[i] = original_port_caption(i)

\* C16: a dynamic slot is connectable iff it is visible: can_connect_to_port
\* answers with the slot's visibility, a connection-created event at a
\* dynamic slot leaves the slot connected iff the slot was visible, and a
\* slot that enters the connected set was visible and was the spare or in the
\* disconnected set just before; no event takes a hidden slot to connected.
C16_ConnectableIffVisible ==
    /\ \A i \in DynamicSet : can_connect_to_port(i) <=> port_visible[i]
    /\ (last.op = "created" /\ last.port \in DynamicSet) =>
            (last.port \in connected_inputs <=> last.port_visible[last.port])
    /\ last.op \in {"created", "deleted", "removal", "removal_failed"} =>
            \A j \in connected_inputs \ last.connected_inputs :
                /\ last.op = "created" /\ j = last.port
                /\ last.port_visible[j]
                /\ j = last.spare_input_index \/ j \in last.disconnected_inputs

C16_Witness ==
    /\ last.op = "created"
    /\ last.port \in DynamicSet
    /\ ~last.port_visible[last.port]
    /\ ~can_connect_to_port(last.port)
    /\ last.port \notin connected_inputs
    /\ disconnected_inputs # {}

\* C17: in every state reachable by connection events the two index maps are
\* inverse on the visible slots: visual_to_logical_index(
\* logical_to_visual_index(i)) = i for every index i of the visual ordering
\* and logical_to_visual_index(visual_to_logical_index(p)) = p for every
\* position p in [0, visible count); a hidden or unassigned logical index and
\* a negative or out-of-range visual position give None.
C17_IndexMapsInverse ==
    LET order == get_visual_port_ordering(connected_inputs, disconnected_inputs,
                                          spare_input_index)
    IN  /\ \A i \in Elems(order) :
                LET v == logical_to_visual_index(i)
                IN  v # None /\ visual_to_logical_index(v[1]) = Some(i)
        /\ \A p \in 0 .. (get_visual_port_count - 1) :
                LET l == visual_to_logical_index(p)
                IN  l # None /\ logical_to_visual_index(l[1]) = Some(p)
        /\ \A i \in Slots : ~port_visible[i] => logical_to_visual_index(i) = None
        /\ \A i \in {-1, num_inputs} : logical_to_visual_index(i) = None
        /\ \A p \in {-2, -1, get_visual_port_count, get_visual_port_count + 1} :
                visual_to_logical_index(p) = None

C17_Witness ==
    /\ last.op \in {"created", "deleted"}
    /\ logical_to_visual_index(2) = Some(1)
    /\ visual_to_logical_index(1) = Some(2)
    /\ logical_to_visual_index(1) = Some(2)
    /\ visual_to_logical_index(-1) = None
    /\ visual_to_logical_index(3) = None

\* C18: restore() of a record whose dynamic sub-record omits fields applies a
\* default per field: active_input_count and the spare index default to 0,
\* the connected and disconnected sets to empty; supplied fields are taken
\* verbatim; the display is recomputed and the change signals are emitted.  A
\* record without the sub-record leaves the four fields unchanged.
C18_RestoreDefaults ==
    last.op = "restore" =>
        LET rec == last.rec
            has(key) == key \in rec.keys
            shown == update_port_display(connected_inputs, disconnected_inputs,
                                         spare_input_index)
        IN  IF rec.dyn
            THEN /\ active_input_count =
                        IF has("active_input_count")
                        THEN rec.active_input_count ELSE 0
                 /\ spare_input_index =
                        IF has("spare_input_index")
                        THEN rec.spare_input_index ELSE 0
                 /\ connected_inputs =
                        IF has("connected_inputs")
                        THEN Elems(rec.connected_inputs) ELSE {}
                 /\ disconnected_inputs =
                        IF has("disconnected_inputs")
                        THEN Elems(rec.disconnected_inputs) ELSE {}
                 /\ port_visible = shown.visible
                 /\ port_caption = shown.caption
                 /\ port_caption_visible = shown.caption_visible
                 /\ signals = <<"embedded_widget_size_updated", "data_updated">>
            ELSE /\ active_input_count = last.active_input_count
                 /\ spare_input_index = last.spare_input_index
                 /\ connected_inputs = last.connected_inputs
                 /\ disconnected_inputs = last.disconnected_inputs

C18_Witness ==
    /\ last.op = "restore"
    /\ last.rec.dyn
    /\ last.rec.keys = {"connected_inputs"}
    /\ last.rec.active_input_count > 0
    /\ last.rec.spare_input_index # 0
    /\ last.rec.disconnected_inputs # <<>>
    /\ active_input_count = 0
    /\ spare_input_index = 0
    /\ connected_inputs # {}
    /\ disconnected_inputs = {}

\* C19: in every state reached from construction by connection-created and
\* connection-removed events the spare index is the smallest dynamic index in
\* neither the connected nor the disconnected set, and is -1 exactly when
\* every dynamic index is connected or disconnected; also after the events
\* that do not rescan (reconnection, non-tail disconnect).
C19_SpareIsSmallestFree ==
    LET free == {i \in DynamicSet :
                    i \notin connected_inputs /\ i \notin disconnected_inputs}
    IN  /\ spare_input_index = -1 <=> free = {}
        /\ free # {} => /\ spare_input_index \in free
                        /\ \A j \in free : spare_input_index <= j

C19_Witness ==
    /\ last.op = "deleted"
    /\ last.port \in last.connected_inputs
    /\ last.port # last.active_input_count - 1
    /\ last.disconnected_inputs # {}
    /\ spare_input_index = last.spare_input_index
    /\ spare_input_index \in DynamicSet
    /\ spare_input_index > last.port

C21_CounterBounds ==
    LET kept == connected_inputs \cup disconnected_inputs
    IN  /\ 0 <= active_input_count
        /\ active_input_count <= Cardinality(kept)
        /\ Cardinality(kept) <= Cardinality(DynamicSet)

C21_Witness ==
    /\ last.op = "deleted"
    /\ last.port \in last.connected_inputs
    /\ last.port = last.active_input_count - 1
    /\ active_input_count = 0
    /\ Cardinality(DynamicSet) >= 2
    /\ connected_inputs \cup disconnected_inputs = DynamicSet

\* C22 as stated: when the deferred removal of a connection rejected at a
\* hidden dynamic slot fires and delivers the connection-removed event at
\* that slot, after any number of other connection events (those that moved
\* the spare to the slot included), the connected set, the disconnected set,
\* the spare index and active_input_count are what they were just before it
\* fired.
C22_RemovalLeavesState ==
    last.op = "removal" =>
        /\ connected_inputs = last.connected_inputs
        /\ disconnected_inputs = last.disconnected_inputs
        /\ spare_input_index = last.spare_input_index
        /\ active_input_count = last.active_input_count

\* C23: in every state reached by connection events (static and dynamic
\* sets disjoint) get_visual_port_ordering() holds no index twice, its set of
\* indices is the set of input slots marked visible, and
\* get_visual_port_count() is the number of visible input slots.
C23_OrderingIsVisibleSet ==
    LET order == get_visual_port_ordering(connected_inputs, disconnected_inputs,
                                          spare_input_index)
        visible == {i \in Slots : port_visible[i]}
    IN  /\ StaticSet \cap DynamicSet = {}
        /\ \A p, q \in DOMAIN order : p # q => order[p] # order[q]
        /\ Elems(order) = visible
        /\ get_visual_port_count = Cardinality(visible)

C23_Witness ==
    /\ last.op \in {"created", "deleted", "removal"}
    /\ connected_inputs # {}
    /\ spare_input_index \in DynamicSet
    /\ \E i \in DynamicSet : ~port_visible[i]
    /\ get_visual_port_count = 2
    /\ Cardinality({i \in Slots : port_visible[i]}) = 2

=============================================================================
